---- MODULE Spec2Model ----
(***************************************************************************)
(* Chained hash table of src/util/virhash.c.                               *)
(*                                                                         *)
(* A C string is a sequence of non-zero bytes; the NULL pointer passed as  *)
(* a name is NullName.  A payload is an opaque pointer: NULL or a small    *)
(* positive number.  The bucket array is kept sparse: an index outside     *)
(* DOMAIN table is a NULL chain head (the array is zero-allocated).  A     *)
(* chain is the sequence of its entries, head first.                       *)
(***************************************************************************)
EXTENDS Integers, Sequences, FiniteSets, TLC

VARIABLES table, seed, size, nbElems, dataFree, ref, last,
          table2, lock, threads, callback, log

\* what the single-table, single-threaded caller never touches: the second
\* table of a comparison, the lock and the threads of the atomic wrapper,
\* the callback of the iteration in progress, and the record of what became
\* of each payload over the table's life
others == <<table2, lock, threads, callback, log>>

vars == <<table, seed, size, nbElems, dataFree, ref, last, others>>

----------------------------------------------------------------------------
(* Program constants *)

MAX_HASH_LEN == 8

InitialSize == 32

MinGrowSize == 8

MaxGrowSize == 16384

NULL == 0

----------------------------------------------------------------------------
(* Bounds of the model *)

\* number of fresh "filler" names the caller may insert one after the other
MaxFill == 12

\* number of names inserted into a fresh table by the bulk insertion run
FillCount == 100

\* number of filler names in the tables that are iterated with callbacks
IterFill == 2

\* number of threads calling into one atomic wrapper
NThreads == 2

\* number of calls the threads make, all together
MaxCalls == 3

----------------------------------------------------------------------------
(* Inputs *)

NullName == <<0>>

\* "d": a name the caller adds, overwrites, removes and steals at any time
HotNames == {<<100>>}

\* "ca", "cb", ...: the names the caller inserts one after the other
FillName(i) == <<99, 96 + i>>

FillNames == {FillName(i) : i \in 1..MaxFill}

Names == HotNames \cup FillNames

\* NULL and two distinct non-NULL pointers
Payloads == {NULL, 1, 2}

\* the payloads the caller stores under the filler names
FillPayloads == {1}

Seeds == {0, 1, 2}

\* the tables constructed: <<seed, destructor given>>
Configs == {<<0, TRUE>>, <<1, TRUE>>, <<2, TRUE>>, <<2, FALSE>>}

----------------------------------------------------------------------------
(* Hashing *)

RECURSIVE PolyHash(_, _)
PolyHash(name, h) ==
    IF name = <<>> THEN h
    ELSE PolyHash(Tail(name), h * 31 + Head(name))

\* The seeded 32 bit string hash consumed by the table.  Each seed stands
\* for one assignment of hash values to names, all values below 2^31:
\* seed 0 sends every name to the same value, seed 1 spreads the names,
\* seed 2 makes all names collide modulo 32 and spreads them modulo larger
\* capacities.
virHashCodeGen(name, len, s) ==
    CASE s = 0 -> 2147483647
      [] s = 1 -> PolyHash(SubSeq(name, 1, len), 0)
      [] OTHER -> 32 * PolyHash(SubSeq(name, 1, len), 0) + 5

virHashComputeKey(t, name) ==
    virHashCodeGen(name, Len(name), t.seed) % t.size

----------------------------------------------------------------------------
(* The table as a value *)

T == [table |-> table, seed |-> seed, size |-> size,
      nbElems |-> nbElems, dataFree |-> dataFree]

EmptyBuckets == [i \in {} |-> <<>>]

Bucket(tab, i) == IF i \in DOMAIN tab THEN tab[i] ELSE <<>>

SetBucket(tab, i, chain) ==
    IF chain = <<>>
    THEN [j \in DOMAIN tab \ {i} |-> tab[j]]
    ELSE [j \in DOMAIN tab \cup {i} |-> IF j = i THEN chain ELSE tab[j]]

virHashNew(freeFn, s) ==
    [table |-> EmptyBuckets, seed |-> s, size |-> InitialSize,
     nbElems |-> 0, dataFree |-> freeFn]

MinOf(S) == CHOOSE x \in S : \A y \in S : x <= y

\* the entries in the order a walk over buckets lo..hi visits them: bucket
\* after bucket by rising index, each chain from its head; D holds the
\* indices in lo..hi whose chain head is not NULL
RECURSIVE WalkBuckets(_, _, _, _)
WalkBuckets(tab, D, lo, hi) ==
    IF D = {} THEN <<>>
    ELSE IF Cardinality(D) = 1 THEN tab[CHOOSE i \in D : TRUE]
    ELSE LET mid == (lo + hi) \div 2
         IN WalkBuckets(tab, {i \in D : i <= mid}, lo, mid)
            \o WalkBuckets(tab, {i \in D : i > mid}, mid + 1, hi)

Walk(t) ==
    WalkBuckets(t.table, {i \in DOMAIN t.table : i < t.size}, 0, t.size - 1)

\* faulty variant: only the head of the chain is compared with the name
FindEntryHeadOnly(chain, name) ==
    IF chain # <<>> /\ chain[1].name = name THEN 1 ELSE 0

\* index of the first entry of the chain named name, 0 when there is none
FindEntry(chain, name) ==
    LET hits == {i \in 1..Len(chain) : chain[i].name = name}
    IN IF hits = {} THEN 0 ELSE MinOf(hits)

Invoke(t, payload) == IF t.dataFree THEN <<payload>> ELSE <<>>

----------------------------------------------------------------------------
(* virHashGrow *)

\* faulty variant: no upper limit on the size asked for
GrowSizeOkNoMax(newsize) == newsize >= MinGrowSize

GrowSizeOk(newsize) == newsize >= MinGrowSize /\ newsize <= MaxGrowSize

Reverse(s) == [i \in 1..Len(s) |-> s[Len(s) + 1 - i]]

\* faulty variant: an entry is put into the bucket of the new array that has
\* the index of its bucket in the old array
RechainOldIndex(entries, t) ==
    LET keyOf(e) == virHashCodeGen(e.name, Len(e.name), t.seed)
                        % (t.size \div MAX_HASH_LEN)
        keys == {keyOf(entries[i]) : i \in 1..Len(entries)}
    IN [key \in keys |-> Reverse(SelectSeq(entries, LAMBDA e : keyOf(e) = key))]

\* the new bucket array: every entry of the old one, taken in walk order,
\* is put at the head of the chain of its bucket under the new size, so a
\* new chain holds its entries in the reverse of the order they were met
Rechain(entries, t) ==
    LET keyOf(e) == virHashComputeKey(t, e.name)
        keys == {keyOf(entries[i]) : i \in 1..Len(entries)}
    IN [key \in keys |-> Reverse(SelectSeq(entries, LAMBDA e : keyOf(e) = key))]

\* faulty variant: the bucket of an entry is computed before the size is updated
virHashGrowStaleSize(t, newsize) ==
    IF ~GrowSizeOk(newsize)
    THEN [t |-> t, ret |-> -1]
    ELSE [t |-> [t EXCEPT !.size = newsize, !.table = Rechain(Walk(t), t)],
          ret |-> 0]

virHashGrow(t, newsize) ==
    IF ~GrowSizeOk(newsize)
    THEN [t |-> t, ret |-> -1]
    ELSE LET nt == [t EXCEPT !.size = newsize]
         IN [t |-> [nt EXCEPT !.table = Rechain(Walk(t), nt)],
             ret |-> 0]

----------------------------------------------------------------------------
(* virHashAddOrUpdateEntry and its public forms *)

\* faulty variant: the chain length that triggers a grow is one too small
GrowNeededAtLimit(len) == len >= MAX_HASH_LEN

\* faulty variant: the threshold is taken per table, not per chain
GrowNeededPerTable(len) == len > MAX_HASH_LEN * InitialSize

GrowNeeded(len) == len > MAX_HASH_LEN

AppendEntry(t, name, userdata) ==
    LET key == virHashComputeKey(t, name)
    IN [t EXCEPT !.table = SetBucket(t.table, key,
                     Append(Bucket(t.table, key),
                            [name |-> name, payload |-> userdata])),
                 !.nbElems = t.nbElems + 1]

\* faulty variant: the payload is overwritten before the destructor is called on it
ReplacePayloadThenFree(t, entry, userdata) ==
    [entry |-> [entry EXCEPT !.payload = userdata],
     freed |-> Invoke(t, userdata)]

\* overwriting the payload of an entry found: the entry after, and the
\* payloads handed to the destructor
ReplacePayload(t, entry, userdata) ==
    [entry |-> [entry EXCEPT !.payload = userdata],
     freed |-> Invoke(t, entry.payload)]

\* faulty variant: the result of virHashGrow becomes the result of the call
virHashAddOrUpdateEntryGrowChecked(t, name, userdata, is_update) ==
    IF name = NullName
    THEN [t |-> t, ret |-> -1, freed |-> <<>>]
    ELSE LET key == virHashComputeKey(t, name)
             chain == Bucket(t.table, key)
             at == FindEntry(chain, name)
             len == Len(chain)
         IN IF at # 0
            THEN IF is_update
                 THEN LET w == ReplacePayload(t, chain[at], userdata)
                      IN [t |-> [t EXCEPT !.table = SetBucket(t.table, key,
                                      [chain EXCEPT ![at] = w.entry])],
                          ret |-> 0,
                          freed |-> w.freed]
                 ELSE [t |-> t, ret |-> -1, freed |-> <<>>]
            ELSE LET nt == AppendEntry(t, name, userdata)
                     g == virHashGrow(nt, MAX_HASH_LEN * nt.size)
                 IN [t |-> IF GrowNeeded(len) THEN g.t ELSE nt,
                     ret |-> IF GrowNeeded(len) THEN g.ret ELSE 0,
                     freed |-> <<>>]

virHashAddOrUpdateEntry(t, name, userdata, is_update) ==
    IF name = NullName
    THEN [t |-> t, ret |-> -1, freed |-> <<>>]
    ELSE LET key == virHashComputeKey(t, name)
             chain == Bucket(t.table, key)
             at == FindEntry(chain, name)
             len == Len(chain)
         IN IF at # 0
            THEN IF is_update
                 THEN LET w == ReplacePayload(t, chain[at], userdata)
                      IN [t |-> [t EXCEPT !.table = SetBucket(t.table, key,
                                      [chain EXCEPT ![at] = w.entry])],
                          ret |-> 0,
                          freed |-> w.freed]
                 ELSE [t |-> t, ret |-> -1, freed |-> <<>>]
            ELSE LET nt == AppendEntry(t, name, userdata)
                 IN [t |-> IF GrowNeeded(len)
                           THEN virHashGrow(nt, MAX_HASH_LEN * nt.size).t
                           ELSE nt,
                     ret |-> 0,
                     freed |-> <<>>]

\* faulty variant: add passes is_update = true
virHashAddEntryAsUpdate(t, name, userdata) ==
    virHashAddOrUpdateEntry(t, name, userdata, TRUE)

virHashAddEntry(t, name, userdata) ==
    virHashAddOrUpdateEntry(t, name, userdata, FALSE)

virHashUpdateEntry(t, name, userdata) ==
    virHashAddOrUpdateEntry(t, name, userdata, TRUE)

----------------------------------------------------------------------------
(* Lookup *)

\* a pointer to an entry: <<>> is the NULL pointer, <<e>> points at entry e
NoEntry == <<>>

virHashGetEntry(t, name) ==
    IF name = NullName THEN NoEntry
    ELSE LET chain == Bucket(t.table, virHashComputeKey(t, name))
             at == FindEntry(chain, name)
         IN IF at = 0 THEN NoEntry ELSE <<chain[at]>>

virHashLookup(t, name) ==
    LET entry == virHashGetEntry(t, name)
    IN IF entry = NoEntry THEN NULL ELSE entry[1].payload

virHashHasEntry(t, name) == virHashGetEntry(t, name) # NoEntry

virHashSize(t) == t.nbElems

----------------------------------------------------------------------------
(* Removal *)

Unlink(chain, at) == SubSeq(chain, 1, at - 1) \o SubSeq(chain, at + 1, Len(chain))

virHashRemoveEntry(t, name) ==
    IF name = NullName
    THEN [t |-> t, ret |-> -1, freed |-> <<>>]
    ELSE LET key == virHashComputeKey(t, name)
             chain == Bucket(t.table, key)
             at == FindEntry(chain, name)
         IN IF at = 0
            THEN [t |-> t, ret |-> -1, freed |-> <<>>]
            ELSE [t |-> [t EXCEPT !.table = SetBucket(t.table, key, Unlink(chain, at)),
                                  !.nbElems = t.nbElems - 1],
                  ret |-> 0,
                  freed |-> Invoke(t, chain[at].payload)]

virHashSteal(t, name) ==
    LET data == virHashLookup(t, name)
    IN IF data # NULL
       THEN LET saved == t.dataFree
                r == virHashRemoveEntry([t EXCEPT !.dataFree = FALSE], name)
            IN [t |-> [r.t EXCEPT !.dataFree = saved],
                ret |-> data, freed |-> r.freed]
       ELSE [t |-> t, ret |-> data, freed |-> <<>>]

RECURSIVE FreeEntries(_, _)
\* the loop over the entries of the table: the destructor, when there is
\* one, is called on each payload
FreeEntries(t, entries) ==
    IF entries = <<>>
    THEN <<>>
    ELSE Invoke(t, Head(entries).payload) \o FreeEntries(t, Tail(entries))

\* every entry is released, then the bucket array and the table itself
virHashFree(t) ==
    [t |-> [t EXCEPT !.table = EmptyBuckets],
     freed |-> FreeEntries(t, Walk(t))]

----------------------------------------------------------------------------
(* Predicate based removal *)

\* the predicates callers pass: iter names the callback, opaque is its data
CallSearcher(iter, payload, name, opaque) ==
    CASE iter = "_virHashRemoveAllIter" -> 1
      [] iter = "payloadIs" -> IF payload = opaque THEN 1 ELSE 0
      [] OTHER -> 0

\* faulty variant: an entry is removed when the predicate returns zero
MatchesZero(iter, opaque, e) == CallSearcher(iter, e.payload, e.name, opaque) = 0

Matches(iter, opaque, e) == CallSearcher(iter, e.payload, e.name, opaque) # 0

\* faulty variant: one decrement for the call, however many entries were unlinked
RemoveSetElemsOnce(nb, count) == IF count > 0 THEN nb - 1 ELSE nb

\* the element count after count entries were unlinked, one decrement each
RemoveSetElems(nb, count) == nb - count

\* the names of the entries the predicate is called on, in the order of
\* the calls: the loop comes to every entry of every chain once
SearcherCalls(t) ==
    LET walk == Walk(t) IN [k \in 1..Len(walk) |-> walk[k].name]

virHashRemoveSet(t, iter, opaque) ==
    LET removed == SelectSeq(Walk(t), LAMBDA e : Matches(iter, opaque, e))
        keep(i) == SelectSeq(t.table[i], LAMBDA e : ~Matches(iter, opaque, e))
        count == Len(removed)
    IN [t |-> [t EXCEPT !.table = [i \in {j \in DOMAIN t.table : keep(j) # <<>>}
                                       |-> keep(i)],
                        !.nbElems = RemoveSetElems(t.nbElems, count)],
        ret |-> count,
        freed |-> IF t.dataFree
                  THEN [k \in 1..count |-> removed[k].payload]
                  ELSE <<>>,
        called |-> SearcherCalls(t)]

virHashRemoveAll(t) == virHashRemoveSet(t, "_virHashRemoveAllIter", NULL)

----------------------------------------------------------------------------
(* Snapshots and sorted iteration *)

\* strcmp: byte-wise comparison, the end of a string being the zero byte
RECURSIVE StrCmp(_, _)
StrCmp(a, b) ==
    CASE a = <<>> /\ b = <<>> -> 0
      [] a = <<>> -> 0 - Head(b)
      [] b = <<>> -> Head(a)
      [] Head(a) # Head(b) -> Head(a) - Head(b)
      [] OTHER -> StrCmp(Tail(a), Tail(b))

\* faulty variant: the two arguments of strcmp are swapped
virHashGetItemsKeySorterSwapped(a, b) == StrCmp(b.key, a.key)

virHashGetItemsKeySorter(a, b) == StrCmp(a.key, b.key)

RECURSIVE InsertItem(_, _)
InsertItem(x, s) ==
    IF s = <<>> THEN <<x>>
    ELSE IF virHashGetItemsKeySorter(x, Head(s)) <= 0 THEN <<x>> \o s
         ELSE <<Head(s)>> \o InsertItem(x, Tail(s))

\* qsort of the array under virHashGetItemsKeySorter
RECURSIVE Qsort(_)
Qsort(s) == IF s = <<>> THEN <<>> ELSE InsertItem(Head(s), Qsort(Tail(s)))

Sentinel == [key |-> NullName, value |-> NULL]

\* virHashForEach with virHashGetItemsIterator: the array after the walk
FillItems(t, nitems) ==
    LET walk == Walk(t)
    IN [i \in 1..(nitems + 1) |->
            IF i <= Len(walk)
            THEN [key |-> walk[i].name, value |-> walk[i].payload]
            ELSE Sentinel]

virHashGetItems(t, sortKeys) ==
    LET nitems == virHashSize(t)
        items == FillItems(t, nitems)
    IN IF sortKeys
       THEN Qsort(SubSeq(items, 1, nitems)) \o SubSeq(items, nitems + 1, nitems + 1)
       ELSE items

\* the pairs of the array before the terminating pair, whose key is NULL
BeforeSentinel(items) ==
    LET ends == {i \in 1..Len(items) : items[i].key = NullName}
    IN IF ends = {} THEN items ELSE SubSeq(items, 1, MinOf(ends) - 1)

\* the iteration callbacks callers pass
CallIterator(iter, payload, name, opaque) ==
    CASE iter = "visit" -> 0
      [] iter = "failAt" -> IF name = opaque THEN -1 ELSE 0
      [] iter = "rejectAt" -> IF name = opaque THEN -2 ELSE 0
      [] OTHER -> 0

\* the loop over a snapshot: the names passed to the callback, and the result
IterateItems(items, iter, opaque) ==
    LET its == BeforeSentinel(items)
        bad == {i \in 1..Len(its) :
                    CallIterator(iter, its[i].value, its[i].key, opaque) < 0}
        n == IF bad = {} THEN Len(its) ELSE MinOf(bad)
    IN [ret |-> IF bad = {} THEN 0 ELSE -1,
        visited |-> [i \in 1..n |-> its[i].key]]

virHashForEachSorted(t, iter, opaque) ==
    IterateItems(virHashGetItems(t, TRUE), iter, opaque)

----------------------------------------------------------------------------
(* Iteration with callbacks that act on the table *)

\* what a callback does to the table it iterates: "removeCurrent" calls
\* virHashRemoveEntry with the name it was passed, "removeVictim" calls it
\* with the name its opaque data holds and never reads its arguments
IterEffect(t, iter, name, opaque) ==
    CASE iter = "removeCurrent" -> virHashRemoveEntry(t, name)
      [] iter = "removeVictim" -> virHashRemoveEntry(t, opaque)
      [] OTHER -> [t |-> t, ret |-> 0, freed |-> <<>>]

\* a pointer to an entry that was freed
Dangling == <<[name |-> NullName, payload |-> NULL]>>

\* the next field of the entry named name, a pointer to an entry like the
\* result of virHashGetEntry; the field of an entry already freed holds
\* whatever the allocator left there
NextField(chain, name) ==
    LET at == FindEntry(chain, name)
    IN IF at = 0 THEN Dangling
       ELSE IF at < Len(chain) THEN <<chain[at + 1]>> ELSE NoEntry

\* faulty variant: entry->next is read after the callback returned
NextLinkAfterCall(before, after, name) == NextField(after, name)

\* next as virHashForEach holds it: read from the entry before the callback
\* is called, before being the chain then and after the chain on its return
NextLink(before, after, name) == NextField(before, name)

\* the walk of virHashForEach from the entry pointed to in bucket i on;
\* i = -1 is the start.  dangling: the walk came to follow a pointer to an
\* entry that was freed
RECURSIVE ForEachFrom(_, _, _, _, _, _)
ForEachFrom(t, i, entry, iter, opaque, out) ==
    IF entry = NoEntry
    THEN LET rest == {j \in DOMAIN t.table : j > i /\ j < t.size}
         IN IF rest = {}
            THEN [t |-> t, ret |-> 0, visited |-> out.visited,
                  freed |-> out.freed, dangling |-> FALSE]
            ELSE ForEachFrom(t, MinOf(rest), <<t.table[MinOf(rest)][1]>>,
                             iter, opaque, out)
    ELSE LET chain == Bucket(t.table, i)
         IN IF entry = Dangling \/ FindEntry(chain, entry[1].name) = 0
            THEN [t |-> t, ret |-> 0, visited |-> out.visited,
                  freed |-> out.freed, dangling |-> TRUE]
            ELSE LET name == entry[1].name
                     ret == CallIterator(iter, entry[1].payload, name, opaque)
                     e == IterEffect(t, iter, name, opaque)
                     next == NextLink(chain, Bucket(e.t.table, i), name)
                     now == [visited |-> Append(out.visited, name),
                             freed |-> out.freed \o e.freed]
                 IN IF ret < 0
                    THEN [t |-> e.t, ret |-> ret, visited |-> now.visited,
                          freed |-> now.freed, dangling |-> FALSE]
                    ELSE ForEachFrom(e.t, i, next, iter, opaque, now)

virHashForEach(t, iter, opaque) ==
    ForEachFrom(t, -1, NoEntry, iter, opaque, [visited |-> <<>>, freed |-> <<>>])

\* faulty variant: the loop goes on only over pairs whose entry is still linked
SafeLoopCondLinked(t, item) == item.key # NullName /\ virHashHasEntry(t, item.key)

\* items[i].key, the condition of the loop over the snapshot
SafeLoopCond(t, item) == item.key # NullName

\* the loop of virHashForEachSafe from items[i] on
RECURSIVE ForEachSafeFrom(_, _, _, _, _, _)
ForEachSafeFrom(t, items, i, iter, opaque, out) ==
    IF ~SafeLoopCond(t, items[i])
    THEN [t |-> t, ret |-> 0, visited |-> out.visited, freed |-> out.freed]
    ELSE LET ret == CallIterator(iter, items[i].value, items[i].key, opaque)
             e == IterEffect(t, iter, items[i].key, opaque)
             now == [visited |-> Append(out.visited, items[i].key),
                     freed |-> out.freed \o e.freed]
         IN IF ret < 0
            THEN [t |-> e.t, ret |-> -1, visited |-> now.visited,
                  freed |-> now.freed]
            ELSE ForEachSafeFrom(e.t, items, i + 1, iter, opaque, now)

virHashForEachSafe(t, iter, opaque) ==
    ForEachSafeFrom(t, virHashGetItems(t, FALSE), 1, iter, opaque,
                    [visited |-> <<>>, freed |-> <<>>])

----------------------------------------------------------------------------
(* Search and comparison of two tables *)

\* the value comparators callers pass: 0 when the two values are equal
CallComparator(compar, a, b) ==
    CASE compar = "samePointer" -> IF a = b THEN 0 ELSE 1
      [] compar = "sameParity" -> IF a % 2 = b % 2 THEN 0 ELSE 1
      [] OTHER -> 0

\* the searcher's result, and data.equal after the call
virHashEqualSearcher(payload, name, vhed) ==
    LET value == virHashLookup(vhed.table2, name)
    IN IF value = NULL \/ CallComparator(vhed.compar, value, payload) # 0
       THEN [ret |-> 1, equal |-> FALSE]
       ELSE [ret |-> 0, equal |-> vhed.equal]

\* the first entry, in walk order, for which the searcher returns non-zero:
\* its place in the walk (0 when there is none) and the payload returned
virHashSearch(t, iter, opaque) ==
    LET walk == Walk(t)
        hits == {i \in 1..Len(walk) :
                    IF iter = "virHashEqualSearcher"
                    THEN virHashEqualSearcher(walk[i].payload, walk[i].name,
                                              opaque).ret # 0
                    ELSE CallSearcher(iter, walk[i].payload, walk[i].name,
                                      opaque) # 0}
    IN IF hits = {}
       THEN [at |-> 0, ret |-> NULL]
       ELSE [at |-> MinOf(hits), ret |-> walk[MinOf(hits)].payload]

\* a pointer to a table: NULL, 1 for the table of the caller, 2 for the
\* second table
TablePointers == {1, 2}

TableAt(p) == IF p = 1 THEN T ELSE table2

virHashEqual(table1, tbl2, compar) ==
    LET data == [equal |-> TRUE, table2 |-> TableAt(tbl2), compar |-> compar]
    IN IF table1 = tbl2 THEN TRUE
       ELSE IF table1 = NULL \/ tbl2 = NULL
               \/ virHashSize(TableAt(table1)) # virHashSize(TableAt(tbl2))
       THEN FALSE
       ELSE virHashSearch(TableAt(table1), "virHashEqualSearcher", data).at = 0

----------------------------------------------------------------------------
(* The reference key-to-payload map the table is compared with *)

EmptyMap == [n \in {} |-> NULL]

RefGet(m, name) == IF name \in DOMAIN m THEN m[name] ELSE NULL

RefPut(m, name, payload) ==
    [n \in DOMAIN m \cup {name} |-> IF n = name THEN payload ELSE m[n]]

RefDel(m, name) == [n \in DOMAIN m \ {name} |-> m[n]]

RefAdd(m, name, payload) ==
    IF name = NullName \/ name \in DOMAIN m
    THEN [m |-> m, ret |-> -1]
    ELSE [m |-> RefPut(m, name, payload), ret |-> 0]

RefUpdate(m, name, payload) ==
    IF name = NullName
    THEN [m |-> m, ret |-> -1]
    ELSE [m |-> RefPut(m, name, payload), ret |-> 0]

RefRemove(m, name) ==
    IF name \in DOMAIN m
    THEN [m |-> RefDel(m, name), ret |-> 0]
    ELSE [m |-> m, ret |-> -1]

RefSteal(m, name) ==
    IF name \in DOMAIN m
    THEN [m |-> RefDel(m, name), ret |-> m[name]]
    ELSE [m |-> m, ret |-> NULL]

RefRemoveSet(m, iter, opaque) ==
    LET gone == {n \in DOMAIN m : CallSearcher(iter, m[n], n, opaque) # 0}
    IN [m |-> [n \in DOMAIN m \ gone |-> m[n]], ret |-> Cardinality(gone)]

\* the map after an iteration whose callbacks removed entries
RefIterate(m, iter, opaque, visited) ==
    LET gone == CASE iter = "removeCurrent" -> {visited[k] : k \in 1..Len(visited)}
                  [] iter = "removeVictim" -> IF visited = <<>> THEN {} ELSE {opaque}
                  [] OTHER -> {}
    IN [n \in DOMAIN m \ gone |-> m[n]]

----------------------------------------------------------------------------
(* The caller *)

\* the number of filler names in the table: the caller inserts them in
\* order, with one payload, and removes them through removeSet and removeAll
NFill == Cardinality({i \in 1..MaxFill : virHashHasEntry(T, FillName(i))})

InsertNames ==
    HotNames
    \cup (IF NFill < MaxFill THEN {FillName(NFill + 1)} ELSE {})

RemoveNames == HotNames

PayloadsFor(name) == IF name \in FillNames THEN FillPayloads ELSE Payloads

\* the lock is held by no thread
NoThread == 0

\* the threads calling into one atomic wrapper
Threads == 1..NThreads

\* a thread outside every call of the wrapper
IdleThread == [pc |-> "idle", op |-> "none", name |-> NullName,
               userdata |-> NULL, data |-> NULL, dataFree |-> FALSE,
               ret |-> 0, expect |-> 0, calls |-> 0]

\* no iteration has passed a callback
NoCallback == [iter |-> "none", opaque |-> NullName]

\* nothing handed to the destructor, stored, stolen or rejected yet; the
\* caller's next fresh payload is 1; the table has not been destroyed
NoLog == [freed |-> <<>>, stored |-> {}, stolen |-> {}, rejected |-> {},
          fresh |-> 1, destroyed |-> FALSE]

Observed(op, name, payload, ret, expect, freed, items) ==
    [op |-> op, name |-> name, payload |-> payload, ret |-> ret,
     expect |-> expect, freed |-> freed, items |-> items]

SetTable(t) ==
    /\ table' = t.table
    /\ seed' = t.seed
    /\ size' = t.size
    /\ nbElems' = t.nbElems
    /\ dataFree' = t.dataFree

Init ==
    \E c \in Configs :
        LET t == virHashNew(c[2], c[1])
        IN /\ table = t.table
           /\ seed = t.seed
           /\ size = t.size
           /\ nbElems = t.nbElems
           /\ dataFree = t.dataFree
        /\ ref = EmptyMap
        /\ last = Observed("new", NullName, NULL, 0, 0, <<>>, <<>>)
        /\ table2 = virHashNew(FALSE, 0)
        /\ lock = NoThread
        /\ threads = [th \in Threads |-> IdleThread]
        /\ callback = NoCallback
        /\ log = NoLog

Add ==
    \E name \in InsertNames : \E userdata \in PayloadsFor(name) :
        LET r == virHashAddEntry(T, name, userdata)
            e == RefAdd(ref, name, userdata)
        IN /\ SetTable(r.t)
           /\ UNCHANGED others
           /\ ref' = e.m
           /\ last' = Observed("add", name, userdata, r.ret, e.ret, r.freed, <<>>)

Update ==
    \E name \in InsertNames : \E userdata \in PayloadsFor(name) :
        LET r == virHashUpdateEntry(T, name, userdata)
            e == RefUpdate(ref, name, userdata)
        IN /\ SetTable(r.t)
           /\ UNCHANGED others
           /\ ref' = e.m
           /\ last' = Observed("update", name, userdata, r.ret, e.ret, r.freed, <<>>)

Remove ==
    \E name \in RemoveNames :
        LET r == virHashRemoveEntry(T, name)
            e == RefRemove(ref, name)
        IN /\ SetTable(r.t)
           /\ UNCHANGED others
           /\ ref' = e.m
           /\ last' = Observed("remove", name, NULL, r.ret, e.ret, r.freed, <<>>)

Steal ==
    \E name \in RemoveNames :
        LET r == virHashSteal(T, name)
            e == RefSteal(ref, name)
        IN /\ SetTable(r.t)
           /\ UNCHANGED others
           /\ ref' = e.m
           /\ last' = Observed("steal", name, NULL, r.ret, e.ret, r.freed, <<>>)

RemoveSet ==
    \E opaque \in Payloads :
        LET r == virHashRemoveSet(T, "payloadIs", opaque)
            e == RefRemoveSet(ref, "payloadIs", opaque)
        IN /\ SetTable(r.t)
           /\ UNCHANGED others
           /\ ref' = e.m
           /\ last' = Observed("removeSet", NullName, opaque, r.ret, e.ret,
                               r.freed, <<>>)

RemoveAll ==
    LET r == virHashRemoveAll(T)
    IN /\ SetTable(r.t)
       /\ UNCHANGED others
       /\ ref' = EmptyMap
       /\ last' = Observed("removeAll", NullName, NULL, 0, 0, r.freed, <<>>)

Lookup ==
    \E name \in RemoveNames :
        /\ last' = Observed("lookup", name, NULL, virHashLookup(T, name),
                            RefGet(ref, name), <<>>, <<>>)
        /\ UNCHANGED <<table, seed, size, nbElems, dataFree, ref, others>>

HasEntry ==
    \E name \in RemoveNames :
        /\ last' = Observed("hasEntry", name, NULL,
                            IF virHashHasEntry(T, name) THEN 1 ELSE 0,
                            IF name \in DOMAIN ref THEN 1 ELSE 0, <<>>, <<>>)
        /\ UNCHANGED <<table, seed, size, nbElems, dataFree, ref, others>>

Size ==
    /\ last' = Observed("size", NullName, NULL, virHashSize(T),
                        Cardinality(DOMAIN ref), <<>>, <<>>)
    /\ UNCHANGED <<table, seed, size, nbElems, dataFree, ref, others>>

GetItems ==
    \E sortKeys \in BOOLEAN :
        /\ last' = Observed(IF sortKeys THEN "getItemsSorted" ELSE "getItems",
                            NullName, NULL, virHashSize(T), Cardinality(DOMAIN ref),
                            <<>>, virHashGetItems(T, sortKeys))
        /\ UNCHANGED <<table, seed, size, nbElems, dataFree, ref, others>>

ForEachSorted ==
    LET r == virHashForEachSorted(T, "visit", NULL)
    IN /\ last' = Observed("forEachSorted", NullName, NULL, r.ret, 0,
                           <<>>, r.visited)
       /\ UNCHANGED <<table, seed, size, nbElems, dataFree, ref, others>>

Next ==
    \/ Add
    \/ Update
    \/ Remove
    \/ Steal
    \/ RemoveSet
    \/ RemoveAll
    \/ Lookup
    \/ HasEntry
    \/ Size
    \/ GetItems
    \/ ForEachSorted

Spec == Init /\ [][Next]_vars

----------------------------------------------------------------------------
(* Bulk insertion: FillCount distinct names into a freshly constructed     *)
(* table, then lookups of the names inserted                               *)

FillAdd ==
    /\ nbElems < FillCount
    /\ last.op \in {"new", "add"}
    /\ \E userdata \in FillPayloads :
           LET name == FillName(nbElems + 1)
               r == virHashAddEntry(T, name, userdata)
               e == RefAdd(ref, name, userdata)
           IN /\ SetTable(r.t)
              /\ UNCHANGED others
              /\ ref' = e.m
              /\ last' = Observed("add", name, userdata, r.ret, e.ret, r.freed, <<>>)

FillLookup ==
    /\ nbElems = FillCount
    /\ \E i \in 1..FillCount :
           /\ last' = Observed("lookup", FillName(i), NULL,
                               virHashLookup(T, FillName(i)),
                               RefGet(ref, FillName(i)), <<>>, <<>>)
           /\ UNCHANGED <<table, seed, size, nbElems, dataFree, ref, others>>

NextFill == FillAdd \/ FillLookup

SpecFill == Init /\ [][NextFill]_vars

----------------------------------------------------------------------------
(* Two tables built by insertions, and their comparison *)

EqualNames == HotNames \cup {FillName(1)}

Comparators == {"samePointer", "sameParity"}

\* the caller constructs two tables, which draw different seeds, fills
\* both and then compares them
InitEqual ==
    \E c \in Configs : \E s2 \in Seeds \ {c[1]} :
        LET t == virHashNew(c[2], c[1])
        IN /\ table = t.table
           /\ seed = t.seed
           /\ size = t.size
           /\ nbElems = t.nbElems
           /\ dataFree = t.dataFree
           /\ table2 = virHashNew(c[2], s2)
        /\ ref = EmptyMap
        /\ last = Observed("new", NullName, NULL, 0, 0, <<>>, <<>>)
        /\ lock = NoThread
        /\ threads = [th \in Threads |-> IdleThread]
        /\ callback = NoCallback
        /\ log = NoLog

EqualAdd1 ==
    /\ last.op # "equal"
    /\ \E name \in EqualNames : \E userdata \in Payloads :
        LET r == virHashAddEntry(T, name, userdata)
            e == RefAdd(ref, name, userdata)
        IN /\ SetTable(r.t)
           /\ ref' = e.m
           /\ last' = Observed("add", name, userdata, r.ret, e.ret, r.freed, <<>>)
           /\ UNCHANGED others

EqualAdd2 ==
    /\ last.op # "equal"
    /\ \E name \in EqualNames : \E userdata \in Payloads :
        LET r == virHashAddEntry(table2, name, userdata)
        IN /\ table2' = r.t
           /\ last' = Observed("add2", name, userdata, r.ret, r.ret, r.freed, <<>>)
           /\ UNCHANGED <<table, seed, size, nbElems, dataFree, ref,
                          lock, threads, callback, log>>

Equal ==
    \E table1 \in TablePointers : \E tbl2 \in TablePointers :
    \E compar \in Comparators :
        LET equal == virHashEqual(table1, tbl2, compar)
        IN /\ last' = Observed("equal", NullName, NULL,
                               IF equal THEN 1 ELSE 0, 0, <<>>, <<>>)
           /\ callback' = [iter |-> compar, opaque |-> <<table1, tbl2>>]
           /\ UNCHANGED <<table, seed, size, nbElems, dataFree, ref,
                          table2, lock, threads, log>>

NextEqual == EqualAdd1 \/ EqualAdd2 \/ Equal

SpecEqual == InitEqual /\ [][NextEqual]_vars

----------------------------------------------------------------------------
(* Iteration with callbacks that fail or remove entries *)

IterNames == HotNames \cup {FillName(i) : i \in 1..IterFill}

PureCallbacks ==
    {[iter |-> "visit", opaque |-> NullName]}
    \cup {[iter |-> k, opaque |-> n] : k \in {"failAt", "rejectAt"}, n \in IterNames}

\* virHashForEach: of the callbacks that change the table only the one that
\* removes the entry it is called on
ForEachCallbacks ==
    PureCallbacks \cup {[iter |-> "removeCurrent", opaque |-> NullName]}

\* virHashForEachSafe: also callbacks that remove another entry by name
SafeCallbacks ==
    ForEachCallbacks \cup {[iter |-> "removeVictim", opaque |-> n] : n \in IterNames}

IterAdd ==
    \E name \in IterNames : \E userdata \in PayloadsFor(name) :
        LET r == virHashAddEntry(T, name, userdata)
            e == RefAdd(ref, name, userdata)
        IN /\ SetTable(r.t)
           /\ ref' = e.m
           /\ last' = Observed("add", name, userdata, r.ret, e.ret, r.freed, <<>>)
           /\ callback' = NoCallback
           /\ UNCHANGED <<table2, lock, threads, log>>

ForEach ==
    \E cb \in ForEachCallbacks :
        LET r == virHashForEach(T, cb.iter, cb.opaque)
        IN /\ SetTable(r.t)
           /\ ref' = RefIterate(ref, cb.iter, cb.opaque, r.visited)
           /\ last' = Observed("forEach", NullName, NULL, r.ret, 0,
                               r.freed, r.visited)
           /\ callback' = cb
           /\ UNCHANGED <<table2, lock, threads, log>>

ForEachSafe ==
    \E cb \in SafeCallbacks :
        LET r == virHashForEachSafe(T, cb.iter, cb.opaque)
        IN /\ SetTable(r.t)
           /\ ref' = RefIterate(ref, cb.iter, cb.opaque, r.visited)
           /\ last' = Observed("forEachSafe", NullName, NULL, r.ret, 0,
                               r.freed, r.visited)
           /\ callback' = cb
           /\ UNCHANGED <<table2, lock, threads, log>>

ForEachSortedFailing ==
    \E cb \in PureCallbacks :
        LET r == virHashForEachSorted(T, cb.iter, cb.opaque)
        IN /\ last' = Observed("forEachSorted", NullName, NULL, r.ret, 0,
                               <<>>, r.visited)
           /\ callback' = cb
           /\ UNCHANGED <<table, seed, size, nbElems, dataFree, ref,
                          table2, lock, threads, log>>

NextIter == IterAdd \/ ForEach \/ ForEachSafe \/ ForEachSortedFailing

SpecIter == Init /\ [][NextIter]_vars

----------------------------------------------------------------------------
(* The atomic wrapper: threads calling virHashAtomicUpdate and             *)
(* virHashAtomicSteal on one wrapper, whose table is the table above.  A   *)
(* thread is at "lock" before virObjectLock returns, at "locked" and       *)
(* "remove" inside the table, at "unlock" before virObjectUnlock and at    *)
(* "return" before the return statement.  table2 is the table the same     *)
(* calls make when they run one after the other, each as a whole, in the   *)
(* order in which virObjectLock returns; expect is what the call returns   *)
(* there.                                                                  *)

AtomicNames == HotNames \cup {NullName}

\* a thread passes a pointer of its own
AtomicPayloads(th) == {th}

\* the wrapper constructed: <<seed, destructor given>>
AtomicConfigs == {<<2, TRUE>>}

\* virObjectLock returns only to a thread that finds the lock free
virObjectLock(l, th) == [free |-> l = NoThread, lock |-> th]

virObjectUnlock(l, th) == NoThread

\* faulty variant: virHashAtomicUpdate goes into the table without the lock
AtomicEntryUnlocked(op) == IF op = "update" THEN "locked" ELSE "lock"

\* both functions start with virObjectLock
AtomicEntry(op) == "lock"

\* faulty variant: virHashAtomicSteal returns at once when nothing was found
AtomicStealExitEarly(data) == IF data = NULL THEN "return" ELSE "unlock"

\* virObjectUnlock follows virHashSteal whatever it returned
AtomicStealExit(data) == "unlock"

\* the call of a thread run as a whole on table t
Sequential(t, c) ==
    IF c.op = "update"
    THEN virHashAddOrUpdateEntry(t, c.name, c.userdata, TRUE)
    ELSE virHashSteal(t, c.name)

RECURSIVE SumCalls(_)
SumCalls(S) ==
    IF S = {} THEN 0
    ELSE LET th == CHOOSE x \in S : TRUE
         IN threads[th].calls + SumCalls(S \ {th})

\* the calls made so far on the wrapper
CallsMade == SumCalls(Threads)

AtomicCall(th) ==
    /\ threads[th].pc = "idle"
    /\ CallsMade < MaxCalls
    /\ \E op \in {"update", "steal"} : \E name \in AtomicNames :
       \E userdata \in (IF op = "update" THEN AtomicPayloads(th) ELSE {NULL}) :
           threads' = [threads EXCEPT ![th] =
                          [@ EXCEPT !.pc = AtomicEntry(op), !.op = op,
                                    !.name = name, !.userdata = userdata,
                                    !.calls = @ + 1]]
    /\ UNCHANGED <<table, seed, size, nbElems, dataFree, ref, last,
                   table2, lock, callback, log>>

Lock(th) ==
    /\ threads[th].pc = "lock"
    /\ virObjectLock(lock, th).free
    /\ lock' = virObjectLock(lock, th).lock
    /\ LET r == Sequential(table2, threads[th])
       IN /\ table2' = r.t
          /\ threads' = [threads EXCEPT ![th] =
                            [@ EXCEPT !.pc = "locked", !.expect = r.ret]]
    /\ UNCHANGED <<table, seed, size, nbElems, dataFree, ref, last, callback, log>>

AtomicUpdate(th) ==
    /\ threads[th].pc = "locked"
    /\ threads[th].op = "update"
    /\ LET c == threads[th]
           r == virHashAddOrUpdateEntry(T, c.name, c.userdata, TRUE)
       IN /\ SetTable(r.t)
          /\ threads' = [threads EXCEPT ![th] =
                            [@ EXCEPT !.pc = "unlock", !.ret = r.ret]]
    /\ UNCHANGED <<ref, last, table2, lock, callback, log>>

\* virHashSteal up to the call of virHashRemoveEntry
AtomicStealLookup(th) ==
    /\ threads[th].pc = "locked"
    /\ threads[th].op = "steal"
    /\ LET data == virHashLookup(T, threads[th].name)
       IN IF data # NULL
          THEN /\ threads' = [threads EXCEPT ![th] =
                                 [@ EXCEPT !.pc = "remove", !.data = data,
                                           !.dataFree = dataFree]]
               /\ dataFree' = FALSE
          ELSE /\ threads' = [threads EXCEPT ![th] =
                                 [@ EXCEPT !.pc = AtomicStealExit(data),
                                           !.ret = data]]
               /\ UNCHANGED dataFree
    /\ UNCHANGED <<table, seed, size, nbElems, ref, last, table2, lock, callback, log>>

\* virHashSteal from the call of virHashRemoveEntry on
AtomicStealRemove(th) ==
    /\ threads[th].pc = "remove"
    /\ LET c == threads[th]
           r == virHashRemoveEntry(T, c.name)
       IN /\ SetTable([r.t EXCEPT !.dataFree = c.dataFree])
          /\ threads' = [threads EXCEPT ![th] =
                            [@ EXCEPT !.pc = AtomicStealExit(c.data),
                                      !.ret = c.data,
                                      !.data = NULL, !.dataFree = FALSE]]
    /\ UNCHANGED <<ref, last, table2, lock, callback, log>>

Unlock(th) ==
    /\ threads[th].pc = "unlock"
    /\ lock' = virObjectUnlock(lock, th)
    /\ threads' = [threads EXCEPT ![th].pc = "return"]
    /\ UNCHANGED <<table, seed, size, nbElems, dataFree, ref, last,
                   table2, callback, log>>

\* the call returns ret to the thread, which goes on outside the wrapper
Return(th) ==
    /\ threads[th].pc = "return"
    /\ threads' = [threads EXCEPT ![th] =
                      [IdleThread EXCEPT !.calls = threads[th].calls]]
    /\ UNCHANGED <<table, seed, size, nbElems, dataFree, ref, last,
                   table2, lock, callback, log>>

\* the steps of a call once it was made
Proceed(th) ==
    \/ Lock(th)
    \/ AtomicUpdate(th)
    \/ AtomicStealLookup(th)
    \/ AtomicStealRemove(th)
    \/ Unlock(th)
    \/ Return(th)

NextAtomic ==
    \E th \in Threads :
        \/ AtomicCall(th)
        \/ Lock(th)
        \/ AtomicUpdate(th)
        \/ AtomicStealLookup(th)
        \/ AtomicStealRemove(th)
        \/ Unlock(th)
        \/ Return(th)

\* virHashAtomicNew: the wrapper, its lock free, around a table from
\* virHashNew; table2 starts as the same table
InitAtomic ==
    \E c \in AtomicConfigs :
        LET t == virHashNew(c[2], c[1])
        IN /\ table = t.table
           /\ seed = t.seed
           /\ size = t.size
           /\ nbElems = t.nbElems
           /\ dataFree = t.dataFree
           /\ table2 = t
        /\ ref = EmptyMap
        /\ last = Observed("new", NullName, NULL, 0, 0, <<>>, <<>>)
        /\ lock = NoThread
        /\ threads = [th \in Threads |-> IdleThread]
        /\ callback = NoCallback
        /\ log = NoLog

SpecAtomic == InitAtomic /\ [][NextAtomic]_vars

\* a thread that can take a step of its call, the step out of virObjectLock
\* included, is not left waiting for ever.  The calls being finitely many,
\* the lock ends up free for good for a thread that waits for it.
FairSpecAtomic ==
    /\ InitAtomic
    /\ [][NextAtomic]_vars
    /\ \A th \in Threads : WF_vars(Proceed(th))

----------------------------------------------------------------------------
(* The life of one table, from virHashNew to virHashFree: every payload   *)
(* the caller passes is a different pointer                                *)

MaxPayloads == 3

FreeNames == HotNames \cup {FillName(1), NullName}

\* a payload that was never passed before: the next fresh pointer, or NULL
\* as long as NULL was not passed
FreshPayloads ==
    {log.fresh} \cup (IF NULL \in log.stored \cup log.rejected THEN {} ELSE {NULL})

\* the caller's record after an add or update of userdata returned ret and
\* handed freed to the destructor
Passed(userdata, ret, freed) ==
    [log EXCEPT !.freed = @ \o freed,
                !.stored = IF ret = 0 THEN @ \cup {userdata} ELSE @,
                !.rejected = IF ret = 0 THEN @ ELSE @ \cup {userdata},
                !.fresh = IF userdata = log.fresh THEN @ + 1 ELSE @]

Alive == ~log.destroyed

FreeAdd ==
    /\ Alive
    /\ log.fresh <= MaxPayloads
    /\ \E name \in FreeNames : \E userdata \in FreshPayloads :
        LET r == virHashAddEntry(T, name, userdata)
        IN /\ SetTable(r.t)
           /\ log' = Passed(userdata, r.ret, r.freed)
           /\ last' = Observed("add", name, userdata, r.ret, 0, r.freed, <<>>)
           /\ UNCHANGED <<ref, table2, lock, threads, callback>>

FreeUpdate ==
    /\ Alive
    /\ log.fresh <= MaxPayloads
    /\ \E name \in FreeNames : \E userdata \in FreshPayloads :
        LET r == virHashUpdateEntry(T, name, userdata)
        IN /\ SetTable(r.t)
           /\ log' = Passed(userdata, r.ret, r.freed)
           /\ last' = Observed("update", name, userdata, r.ret, 0, r.freed, <<>>)
           /\ UNCHANGED <<ref, table2, lock, threads, callback>>

FreeRemove ==
    /\ Alive
    /\ \E name \in FreeNames :
        LET r == virHashRemoveEntry(T, name)
        IN /\ SetTable(r.t)
           /\ log' = [log EXCEPT !.freed = @ \o r.freed]
           /\ last' = Observed("remove", name, NULL, r.ret, 0, r.freed, <<>>)
           /\ UNCHANGED <<ref, table2, lock, threads, callback>>

\* the caller owns what virHashSteal returned for a name that was stored
FreeSteal ==
    /\ Alive
    /\ \E name \in FreeNames :
        LET r == virHashSteal(T, name)
        IN /\ SetTable(r.t)
           /\ log' = [log EXCEPT !.freed = @ \o r.freed,
                                 !.stolen = IF virHashHasEntry(T, name)
                                            THEN @ \cup {r.ret} ELSE @]
           /\ last' = Observed("steal", name, NULL, r.ret, 0, r.freed, <<>>)
           /\ UNCHANGED <<ref, table2, lock, threads, callback>>

FreeRemoveSet ==
    /\ Alive
    /\ \E opaque \in log.stored :
        LET r == virHashRemoveSet(T, "payloadIs", opaque)
        IN /\ SetTable(r.t)
           /\ log' = [log EXCEPT !.freed = @ \o r.freed]
           /\ last' = Observed("removeSet", NullName, opaque, r.ret, 0,
                               r.freed, <<>>)
           /\ UNCHANGED <<ref, table2, lock, threads, callback>>

FreeRemoveAll ==
    /\ Alive
    /\ LET r == virHashRemoveAll(T)
       IN /\ SetTable(r.t)
          /\ log' = [log EXCEPT !.freed = @ \o r.freed]
          /\ last' = Observed("removeAll", NullName, NULL, r.ret, 0, r.freed, <<>>)
          /\ UNCHANGED <<ref, table2, lock, threads, callback>>

\* the last call on the table
Free ==
    /\ Alive
    /\ LET r == virHashFree(T)
       IN /\ SetTable(r.t)
          /\ log' = [log EXCEPT !.freed = @ \o r.freed, !.destroyed = TRUE]
          /\ last' = Observed("free", NullName, NULL, 0, 0, r.freed, <<>>)
          /\ UNCHANGED <<ref, table2, lock, threads, callback>>

NextFree ==
    \/ FreeAdd
    \/ FreeUpdate
    \/ FreeRemove
    \/ FreeSteal
    \/ FreeRemoveSet
    \/ FreeRemoveAll
    \/ Free

SpecFree == Init /\ [][NextFree]_vars

----------------------------------------------------------------------------
(* Properties *)

Has(name) == virHashHasEntry(T, name)

Get(name) == virHashLookup(T, name)

AllFillNames == {FillName(i) : i \in 1..FillCount}

\* a is before b in byte-wise order
BytewiseLess(a, b) ==
    \E k \in 1..(Len(a) + 1) :
        /\ k <= Len(b)
        /\ \A j \in 1..(k - 1) : a[j] = b[j]
        /\ k = Len(a) + 1 \/ a[k] < b[k]

StrictlyAscending(keys) ==
    \A i \in 1..Len(keys) : \A j \in 1..Len(keys) :
        i < j => BytewiseLess(keys[i], keys[j])

LivePairs == {[key |-> e.name, value |-> e.payload] : e \in {Walk(T)[i] : i \in 1..Len(Walk(T))}}

LiveNames == {p.key : p \in LivePairs}

\* C1: after any sequence of add, update, remove and steal calls every call
\* returned the status the reference map returned, and lookup of every
\* name returns what the reference map holds for it
C1_RefinesReferenceMap ==
    /\ last.op \in {"add", "update", "remove", "steal"} => last.ret = last.expect
    /\ \A name \in Names : Get(name) = RefGet(ref, name)

\* C2: the element counter equals the number of entries met by walking all
\* bucket chains, which equals the number of distinct names present
C2_SizeIsEntryCount ==
    /\ nbElems = Len(Walk(T))
    /\ nbElems = Cardinality({name \in Names : Has(name)})

C2_Witness ==
    /\ last.op = "removeSet"
    /\ last.ret > 1
    /\ nbElems > 0

\* C3: no two entries of the table, whatever their buckets, have the same name
C3_UniqueNames ==
    LET walk == Walk(T)
    IN \A i \in 1..Len(walk) : \A j \in 1..Len(walk) :
           i # j => walk[i].name # walk[j].name

C3_Witness ==
    /\ size > 32
    /\ last.op = "add"
    /\ last.ret = -1
    /\ Len(Walk(T)) > 9

\* C4: add of a name that is present fails and changes nothing: the payload
\* stored stays, the destructor is not called, element count, capacity and
\* all chains are as before
C4_DuplicateAddChangesNothing ==
    [][(last'.op = "add" /\ Has(last'.name))
         => /\ last'.ret = -1
            /\ last'.freed = <<>>
            /\ table' = table
            /\ nbElems' = nbElems
            /\ size' = size
            /\ virHashLookup(T', last'.name) = Get(last'.name)]_vars

C4_Witness ==
    /\ last.op = "add"
    /\ last.ret = -1
    /\ Has(last.name)
    /\ Get(last.name) # last.payload

\* C5: update of a name that is present succeeds, calls the destructor (when
\* the table has one) on the payload superseded, once, and on nothing else,
\* and lookup of the name then returns the new payload
C5_UpdateOverwrites ==
    [][(last'.op = "update" /\ Has(last'.name))
         => /\ last'.ret = 0
            /\ last'.freed = (IF dataFree THEN <<Get(last'.name)>> ELSE <<>>)
            /\ virHashHasEntry(T', last'.name)
            /\ virHashLookup(T', last'.name) = last'.payload
            /\ nbElems' = nbElems]_vars

C5_Witness ==
    /\ last.op = "update"
    /\ last.ret = 0
    /\ Len(last.freed) = 1
    /\ last.freed[1] # last.payload
    /\ Get(last.name) = last.payload

\* C6: steal of a name that is present, whatever its payload, returns the
\* payload, calls no destructor and removes the entry: lookup of the name
\* is then absent, hasEntry false and the size one less
C6_StealRemovesEntry ==
    [][(last'.op = "steal" /\ Has(last'.name))
         => /\ last'.ret = Get(last'.name)
            /\ last'.freed = <<>>
            /\ ~virHashHasEntry(T', last'.name)
            /\ virHashLookup(T', last'.name) = NULL
            /\ nbElems' = nbElems - 1]_vars

\* C7: a grow keeps all entries: every name present before it (the one just
\* appended included) is found afterwards with its payload, no name is
\* added, the element count is that of the insertion alone and no
\* destructor is called
C7_GrowKeepsEntries ==
    [][size' # size
         => /\ \A name \in Names \ {last'.name} :
                   /\ virHashHasEntry(T', name) = Has(name)
                   /\ virHashLookup(T', name) = Get(name)
            /\ virHashHasEntry(T', last'.name)
            /\ virHashLookup(T', last'.name) = last'.payload
            /\ nbElems' = nbElems + 1
            /\ Len(Walk(T')) = Len(Walk(T)) + 1
            /\ last'.freed = <<>>]_vars

C7_Witness ==
    /\ seed = 0
    /\ size = 256
    /\ nbElems = 10
    /\ last.op = "add"
    /\ last.ret = 0

\* the bulk insertion has put all FillCount names into the table
FillDone == nbElems = FillCount /\ last.op \in {"add", "lookup"}

FillFound == \A name \in AllFillNames : Has(name) /\ Get(name) \in FillPayloads

\* the number of the names inserted whose hash value falls into bucket b of
\* the 32 initial buckets
InitialLoad(b) ==
    Cardinality({name \in AllFillNames :
                    virHashCodeGen(name, Len(name), seed) % 32 = b})

\* C8 as stated: for every seed and assignment of hash values, 100 distinct
\* names inserted into a fresh table are all found and the capacity is
\* larger than 32
C8_FillGrows == FillDone => (FillFound /\ size > 32)

\* C8 amended: the names are all found; the capacity is larger than 32
\* exactly when at least 10 of the names share one of the 32 initial buckets
C8_FillFoundGrowsOnCollision ==
    FillDone => /\ FillFound
                /\ size >= 32
                /\ size > 32 <=> \E b \in 0..31 : InitialLoad(b) >= 10

C8_Witness ==
    /\ FillDone
    /\ FillFound
    /\ size = 32

\* C9: the capacity starts at 32, never decreases, never exceeds 16384 and
\* changes only in an add or update call that inserts a new name
C9_CapacityOnlyGrows ==
    [][/\ last.op = "new" => size = 32
       /\ size' >= size
       /\ size' <= 16384
       /\ size' # size => /\ last'.op \in {"add", "update"}
                           /\ last'.ret = 0
                           /\ ~Has(last'.name)
                           /\ virHashHasEntry(T', last'.name)]_vars

C9_Witness ==
    /\ size = 16384
    /\ nbElems = 13
    /\ Cardinality(DOMAIN table) = 1

\* C10: getItems sorted returns size(table) pairs before the sentinel, one
\* for each live entry and no other, in ascending byte-wise key order;
\* forEachSorted passes the entries to the callback once each in that order
C10_SortedSnapshot ==
    /\ last.op = "getItemsSorted"
         => LET pairs == BeforeSentinel(last.items)
            IN /\ Len(pairs) = nbElems
               /\ Len(last.items) = nbElems + 1
               /\ {pairs[i] : i \in 1..Len(pairs)} = LivePairs
               /\ StrictlyAscending([i \in 1..Len(pairs) |-> pairs[i].key])
    /\ last.op = "forEachSorted"
         => /\ last.ret = 0
            /\ Len(last.items) = nbElems
            /\ {last.items[i] : i \in 1..Len(last.items)} = LiveNames
            /\ StrictlyAscending(last.items)

C10_Witness ==
    /\ last.op = "forEachSorted"
    /\ Len(last.items) > 3
    /\ last.items # [i \in 1..Len(Walk(T)) |-> Walk(T)[i].name]
    /\ <<100>> \in LiveNames

\* the names of table t, in no order
KeysOf(t) == LET walk == Walk(t) IN {walk[i].name : i \in 1..Len(walk)}

\* C11: equal(t1, t2, cmp) is true when t1 and t2 are the same reference,
\* false when their element counts differ, and otherwise true exactly when
\* every key of t1 is present in t2 with a value that cmp reports as equal
\* to the value t1 holds
C11_EqualByKeys ==
    last.op = "equal"
      => LET t1 == TableAt(callback.opaque[1])
             t2 == TableAt(callback.opaque[2])
         IN (last.ret = 1) <=>
              IF callback.opaque[1] = callback.opaque[2] THEN TRUE
              ELSE IF virHashSize(t1) # virHashSize(t2) THEN FALSE
              ELSE \A name \in KeysOf(t1) :
                      /\ virHashHasEntry(t2, name)
                      /\ CallComparator(callback.iter, virHashLookup(t2, name),
                                        virHashLookup(t1, name)) = 0

\* the names of a walk or a snapshot loop, as a set
Visited(items) == {items[k] : k \in 1..Len(items)}

\* C12: in forEach, forEachSafe and forEachSorted a negative result of the
\* callback stops the evaluation (no further entry is passed to the
\* callback) and the operation returns -1; when no call of the callback
\* returns a negative value every entry is visited and the operation
\* returns 0
C12_NegativeStopsWithMinusOne ==
    [][last'.op \in {"forEach", "forEachSafe", "forEachSorted"}
         => LET cb == callback'
                visited == last'.items
                negative == {k \in 1..Len(visited) :
                               CallIterator(cb.iter, Get(visited[k]),
                                            visited[k], cb.opaque) < 0}
            IN IF negative # {}
               THEN /\ negative = {Len(visited)}
                    /\ last'.ret = -1
               ELSE /\ Len(visited) = nbElems
                    /\ Visited(visited) = KeysOf(T)
                    /\ last'.ret = 0]_vars

\* C14: forEachSafe calls the callback once for every entry that was in
\* the table when forEachSafe was called, also when the callback removes
\* entries of the table by name meanwhile, and afterwards the element
\* count is the number of the entries left
C14_SafeVisitsSnapshot ==
    [][(last'.op = "forEachSafe"
        /\ callback'.iter \in {"visit", "removeCurrent", "removeVictim"})
         => /\ Len(last'.items) = nbElems
            /\ Visited(last'.items) = KeysOf(T)
            /\ last'.ret = 0
            /\ nbElems' = Len(Walk(T'))
            /\ nbElems' = Cardinality({name \in Names : virHashHasEntry(T', name)})
            /\ KeysOf(T') \subseteq KeysOf(T)]_vars

\* the callback removed an entry before the loop came to its pair
C14_Witness ==
    /\ last.op = "forEachSafe"
    /\ callback.iter = "removeVictim"
    /\ Len(last.items) = 3
    /\ last.items[3] = callback.opaque
    /\ nbElems = 2
    /\ ~Has(callback.opaque)

C13_RemoveSetRemovesMatches ==
    [][/\ last'.op = "removeSet"
            => LET called == SearcherCalls(T)
                   before == KeysOf(T)
                   after == KeysOf(T')
                   gone == {name \in before : Get(name) = last'.payload}
               IN /\ Len(called) = Cardinality(before)
                  /\ Visited(called) = before
                  /\ after = before \ gone
                  /\ \A name \in after : virHashLookup(T', name) = Get(name)
                  /\ last'.ret = Cardinality(gone)
                  /\ nbElems' = nbElems - Cardinality(gone)
                  /\ last'.freed = IF dataFree
                                   THEN [k \in 1..Cardinality(gone) |-> last'.payload]
                                   ELSE <<>>
       /\ last'.op = "removeAll"
            => /\ KeysOf(T') = {}
               /\ table' = EmptyBuckets
               /\ nbElems' = 0
               /\ virHashSize(T') = 0
               /\ Len(last'.freed) = IF dataFree THEN nbElems ELSE 0]_vars

C13_Witness ==
    /\ last.op = "removeSet"
    /\ last.ret = 3
    /\ Len(last.freed) = 3
    /\ nbElems = 1
    /\ Get(<<100>>) = 2

\* the chain a name is appended to, as it is before the call
ChainOf(name) == Bucket(table, virHashComputeKey(T, name))

\* a call of add or update has put a name into the table that was not in it
Inserts == last'.op \in {"add", "update"} /\ last'.ret = 0 /\ ~Has(last'.name)

\* C16 as stated: whenever add or update inserts a new name and the chain
\* it was appended to now holds more than 8 entries, the capacity on
\* return is 8 times the capacity before, if that is at most 16384
C16_GrowWhenChainOver8 ==
    [][(Inserts /\ Len(ChainOf(last'.name)) + 1 > 8 /\ 8 * size <= 16384)
         => size' = 8 * size]_vars

\* C16 amended: the capacity on return is 8 times the capacity before, if
\* that is at most 16384, whenever the chain held more than 8 entries
\* before the new one was appended, so that it now holds at least 10; an
\* insertion that brings a chain to 9 entries or fewer leaves the capacity
C16_GrowWhenChainWasOver8 ==
    [][Inserts
         => /\ (Len(ChainOf(last'.name)) > 8 /\ 8 * size <= 16384)
                  => size' = 8 * size
            /\ Len(ChainOf(last'.name)) <= 8 => size' = size]_vars

C16_Witness ==
    /\ last.op = "update"
    /\ last.ret = 0
    /\ last.freed = <<>>
    /\ seed = 2
    /\ dataFree
    /\ size = 256
    /\ nbElems = 10
    /\ Cardinality(DOMAIN table) > 1

\* C17: in every state between two operations every entry is in the bucket
\* whose index is the hash of its name under the seed, modulo the capacity
C17_EntriesInTheirBucket ==
    \A i \in DOMAIN table :
        /\ i \in 0..(size - 1)
        /\ \A k \in 1..Len(table[i]) :
               virHashCodeGen(table[i][k].name, Len(table[i][k].name), seed) % size = i

C17_Witness ==
    /\ last.op = "remove"
    /\ last.ret = 0
    /\ seed = 2
    /\ size = 256
    /\ nbElems = 10
    /\ Cardinality(DOMAIN table) > 2

\* C18: a grow that is rejected does not fail the insertion: at capacity
\* 16384, add or update of a new name into a chain of more than 8 entries
\* returns success, the name is present with its payload, the size is one
\* more and the capacity is unchanged
C18_RejectedGrowIsAbsorbed ==
    [][(/\ last'.op \in {"add", "update"}
        /\ ~Has(last'.name)
        /\ size = 16384
        /\ Len(ChainOf(last'.name)) > 8)
         => /\ last'.ret = 0
            /\ virHashHasEntry(T', last'.name)
            /\ virHashLookup(T', last'.name) = last'.payload
            /\ nbElems' = nbElems + 1
            /\ size' = size
            /\ last'.freed = <<>>]_vars

C18_Witness ==
    /\ last.op = "update"
    /\ last.ret = 0
    /\ last.freed = <<>>
    /\ dataFree
    /\ size = 16384
    /\ Len(Bucket(table, virHashComputeKey(T, last.name))) = 13
    /\ Get(last.name) = last.payload

\* the thread is between virObjectLock and virObjectUnlock
Inside(th) == threads[th].pc \in {"locked", "remove", "unlock"}

\* C15: however the update and steal calls of the threads on one wrapper
\* interleave, at most one thread is inside the embedded table at a time,
\* every call returns what it returns when the calls run one after the
\* other in the order in which they got the lock, and the table is then
\* the table that order makes
C15_AtomicCallsSerialized ==
    /\ Cardinality({th \in Threads : Inside(th)}) <= 1
    /\ \A th \in Threads :
           threads[th].pc = "return" => threads[th].ret = threads[th].expect
    /\ (\A th \in Threads : ~Inside(th)) => T = table2

C15_Witness ==
    /\ threads[1].pc = "lock"
    /\ threads[1].op = "update"
    /\ threads[1].calls = 2
    /\ threads[2].pc = "remove"
    /\ threads[2].data = 1
    /\ lock = 2

\* C19: a call of update or steal has released the lock when it returns,
\* on the failing paths too (NULL name, absent name) and when a name was
\* overwritten, so the lock is free whenever no call is in progress, and
\* under fair scheduling every call of every thread returns
C19_LockReleasedCallsReturn ==
    /\ [](\A th \in Threads :
             threads[th].pc \in {"idle", "lock", "return"} => lock # th)
    /\ []((\A th \in Threads : threads[th].pc = "idle") => lock = NoThread)
    /\ \A th \in Threads : (threads[th].pc # "idle") ~> (threads[th].pc = "idle")

\* steal with a NULL name has returned NULL and the thread that waited for
\* the lock meanwhile can take it
C19_Witness ==
    /\ threads[1].pc = "return"
    /\ threads[1].op = "steal"
    /\ threads[1].name = NullName
    /\ threads[1].ret = NULL
    /\ threads[2].pc = "lock"
    /\ lock = NoThread

\* how many times the destructor was called on payload p
TimesFreed(p) == Cardinality({i \in DOMAIN log.freed : log.freed[i] = p})

\* C21: over the calls made on a table with pairwise distinct payloads,
\* ended by virHashFree, the destructor is called at most once on any
\* payload, never on a payload that virHashSteal returned or that a failed
\* add or update rejected, and, once the table is destroyed, exactly once on
\* every payload that was stored and not stolen; virHashSteal leaves the
\* table's destructor as it was
C21_DestructorOncePerPayload ==
    [][/\ \A p \in log'.stored \cup log'.rejected : TimesFreed(p)' <= 1
       /\ \A p \in log'.stolen \cup log'.rejected : TimesFreed(p)' = 0
       /\ (log'.destroyed /\ dataFree')
              => \A p \in log'.stored \ log'.stolen : TimesFreed(p)' = 1
       /\ last'.op = "steal" => dataFree' = dataFree]_vars

====
